---------------------------- MODULE Spec2Model ----------------------------
(* NeuroSAT.forward (src/model/neurosat.py) as a state machine.            *)
(*                                                                          *)
(* Tensors are exact integer matrices: a matrix is a sequence of rows, a    *)
(* row a sequence of numbers.  MLP and LayerNormBasicLSTMCell are imported  *)
(* from the package `model`, which is not part of the sources; they are     *)
(* modelled from their contracts as row-wise functions of their weights.    *)
EXTENDS Integers, Sequences, FiniteSets, TLC

(* ------------------------------ bounds ---------------------------------- *)
MaxLits == 4
MaxClauses == 2
MaxEdges == 2
MaxRounds == 2
Modulus == 5
MaxEmptyLits == 6

(* --------------------------- tensor helpers ----------------------------- *)
RECURSIVE SumTo(_, _)
SumTo(f, n) == IF n = 0 THEN 0 ELSE f[n] + SumTo(f, n - 1)

SumSeq(s) == SumTo(s, Len(s))

Relu(z) == IF z > 0 THEN z ELSE 0

\* a sequence given as a function on 1..n, as the tuple of its elements
Tup(f) == f \o <<>>

ISqrt(n) == CHOOSE r \in 0..n : r * r = n

\* torch.zeros([n, d])
Zeros(n, d) == Tup([r \in 1..n |-> Tup([j \in 1..d |-> 0])])

\* v.repeat([n, 1]) for a [1, d] tensor v, given as its single row
Repeat(v, n) == Tup([r \in 1..n |-> v])

\* (v / denom) for a [1, d] tensor
DivRow(v, denom) == Tup([j \in 1..Len(v) |-> v[j] \div denom])

\* x.size() of the 2-D input
Size(x) == <<x.rows, x.cols>>

\* a pooling that ignores the incidence structure: every clause receives the
\* sum over all literals
MatTMulAll(x, P, w) ==
    Tup([c \in 1..x.cols |->
        Tup([j \in 1..w |-> SumTo([l \in 1..x.rows |-> P[l][j]], x.rows)])])

\* x.t() @ P : [n_clauses, n_lits] @ [n_lits, w]
MatTMul(x, P, w) ==
    Tup([c \in 1..x.cols |->
        Tup([j \in 1..w |->
            SumTo([l \in 1..x.rows |-> x.m[l][c] * P[l][j]], x.rows)])])

\* x @ P : [n_lits, n_clauses] @ [n_clauses, w]
MatMul(x, P, w) ==
    Tup([l \in 1..x.rows |->
        Tup([j \in 1..w |->
            SumTo([c \in 1..x.cols |-> x.m[l][c] * P[c][j]], x.cols)])])

\* torch.cat([A, B], 0)
CatRows(A, B) == A \o B

\* torch.cat([A, B], 1); the caller has checked Len(A) = Len(B)
CatCols(A, B) == Tup([r \in 1..Len(A) |-> A[r] \o B[r]])

\* T[lo:hi, :] with python's 0-based half-open slice
Slice(T, lo, hi) == SubSeq(T, lo + 1, hi)

(* ----------------------- imported collaborators ------------------------- *)
\* MLP(d, [...] + [out]): every output row depends on its own input row only
MLPRow(W, v) ==
    LET s == SumSeq(v)
        n == Len(v)
    IN  Tup([j \in 1..W.out |->
            Relu(W.a * v[((j - 1) % n) + 1] + W.b * s + W.c * j)])

MLP(W, H) == Tup([r \in 1..Len(H) |-> MLPRow(W, H[r])])

\* LayerNormBasicLSTMCell(input_dim, d): new memory cell of one row
CellC(W, d, inp, h, c) ==
    LET wide == Len(inp) > d
    IN  Tup([j \in 1..d |->
            (W.f * c[j] + W.i * inp[j]
               + W.k * (IF wide THEN inp[d + j] ELSE 0)
               + W.u * h[j] + W.g) % Modulus])

\* new hidden state of one row, from the new memory cell
CellH(W, d, inp, h, cn) ==
    LET s == SumSeq(inp)
    IN  Tup([j \in 1..d |-> (W.o * cn[j] + h[j] + s) % Modulus])

\* cell(X, (H, C)) -> <<H', C'>>, row by row
LSTMCell(W, d, X, H, C) ==
    LET Cn == Tup([r \in 1..Len(X) |-> CellC(W, d, X[r], H[r], C[r])])
        Hn == Tup([r \in 1..Len(X) |-> CellH(W, d, X[r], H[r], Cn[r])])
    IN  <<Hn, Cn>>

(* ------------------------------ the model ------------------------------- *)
VARIABLES
    self,        \* the module: d, n_rounds and the parameters
    x,           \* forward's argument x: [rows, cols, m]
    n_batches,   \* forward's argument n_batches
    pc,          \* "idle", "clause", "literal", "readout", "done"
    i,           \* the loop variable of `for i in range(self.n_rounds)`
    L_state_h, L_state_c, C_state_h, C_state_c,
    LC_msgs, CL_msgs, xxx,
    all_votes,
    logits,      \* the returned tensor, or <<>> when the call raised
    outcome,     \* "none", "ok" or the name of the error raised
    nC, nL,      \* history: clause / literal updates executed by this call
    L_prev_h, L_prev_c,   \* history: (L_h, L_c) before the last literal update
    C_prev_h, C_prev_c,   \* history: (C_h, C_c) before the last clause update
    prev         \* history: the previous call (argument and result)

vars == <<self, x, n_batches, pc, i, L_state_h, L_state_c, C_state_h, C_state_c,
          LC_msgs, CL_msgs, xxx, all_votes, logits, outcome, nC, nL,
          L_prev_h, L_prev_c, C_prev_h, C_prev_c, prev>>

\* NeuroSAT.__init__: hyper-parameters and parameter tensors.  Parameters are
\* whatever training left in them; two assignments are explored.
ParamChoices ==
    { [d |-> 1, L_init |-> <<1>>, C_init |-> <<2>>,
       LC_msg |-> [a |-> 1, b |-> 1, c |-> 1, out |-> 1],
       CL_msg |-> [a |-> 2, b |-> 0, c |-> 1, out |-> 1],
       C_update |-> [f |-> 1, i |-> 1, k |-> 0, u |-> 2, g |-> 1, o |-> 1],
       L_update |-> [f |-> 2, i |-> 1, k |-> 3, u |-> 1, g |-> 0, o |-> 1],
       L_vote |-> [a |-> 1, b |-> 1, c |-> 0, out |-> 1],
       vote_bias |-> 0],
      [d |-> 4, L_init |-> <<2, 4, 0, 6>>, C_init |-> <<4, 2, 2, 0>>,
       LC_msg |-> [a |-> 2, b |-> 1, c |-> -1, out |-> 4],
       CL_msg |-> [a |-> 1, b |-> 1, c |-> 1, out |-> 4],
       C_update |-> [f |-> 1, i |-> 2, k |-> 0, u |-> 1, g |-> 0, o |-> 2],
       L_update |-> [f |-> 1, i |-> 1, k |-> 2, u |-> 3, g |-> 1, o |-> 1],
       L_vote |-> [a |-> 3, b |-> 1, c |-> -2, out |-> 1],
       vote_bias |-> 3] }

Construct(p, r) ==
    [d |-> p.d, n_rounds |-> r, L_init |-> p.L_init, C_init |-> p.C_init,
     LC_msg |-> p.LC_msg, CL_msg |-> p.CL_msg,
     L_update |-> p.L_update, C_update |-> p.C_update,
     L_vote |-> p.L_vote, vote_bias |-> p.vote_bias]

\* number of non-zero entries of an incidence matrix
Edges(m, nl, nc) == Cardinality({e \in (1..nl) \X (1..nc) : m[e[1]][e[2]] # 0})

Matrices(nl, nc) ==
    {m \in [1..nl -> [1..nc -> {0, 1}]] : Edges(m, nl, nc) <= MaxEdges}

\* the incidence matrices a caller may pass: any 2-D 0/1 tensor within the
\* bounds, and the edgeless graphs on up to MaxEmptyLits literals
Inputs ==
    UNION {{[rows |-> nl, cols |-> nc, m |-> m] : m \in Matrices(nl, nc)} :
              <<nl, nc>> \in (0..MaxLits) \X (0..MaxClauses)}
    \cup {[rows |-> nl, cols |-> nc, m |-> Zeros(nl, nc)] :
              <<nl, nc>> \in (0..MaxEmptyLits) \X (0..MaxClauses)}

\* the matrix with rows i and i + n_vars exchanged (even number of rows)
FlipInput(y) ==
    LET nv == y.rows \div 2
    IN  [y EXCEPT !.m = Tup([l \in 1..y.rows |->
                            IF l <= nv THEN y.m[l + nv]
                            ELSE IF l - nv <= nv THEN y.m[l - nv] ELSE y.m[l]])]

\* a batch forward accepts: rows in polarity pairs, equal-sized instances
WellFormed(y, nb) ==
    /\ y.rows % 2 = 0
    /\ nb >= 1
    /\ (y.rows \div 2) % nb = 0

\* the instance (0-based) that owns literal row l (1-based) of a well-formed
\* batch: instance b owns the variables [b*k, (b+1)*k)
InstOfLit(y, nb, l) ==
    LET nv == y.rows \div 2
    IN  ((l - 1) % nv) \div (nv \div nb)

\* every clause column has its non-zero entries in the rows of its owner
Packed(y, nb, own) ==
    \A l \in 1..y.rows : \A c \in 1..y.cols :
        y.m[l][c] # 0 => InstOfLit(y, nb, l) = own[c]

\* the instances that have a literal in clause column c
ColumnInstances(y, nb, c) ==
    {InstOfLit(y, nb, l) : l \in {r \in 1..y.rows : y.m[r][c] # 0}}

\* is y one of Inputs
InInputs(y) ==
    LET e == Edges(y.m, y.rows, y.cols)
    IN  /\ y.cols <= MaxClauses
        /\ \/ y.rows <= MaxLits /\ e <= MaxEdges
           \/ y.rows <= MaxEmptyLits /\ e = 0

\* the batches of the same instances' sizes in which one instance has one
\* incidence entry changed: both batches keep every clause within one instance
Repacked(y, nb) ==
    IF WellFormed(y, nb) /\ nb >= 2 /\ y.rows >= 2
       /\ \A c \in 1..y.cols : Cardinality(ColumnInstances(y, nb, c)) <= 1
    THEN {z \in {[y EXCEPT !.m[e[1]][e[2]] = 1 - y.m[e[1]][e[2]]] :
                    e \in {f \in (1..y.rows) \X (1..y.cols) :
                             ColumnInstances(y, nb, f[2]) \subseteq
                                 {InstOfLit(y, nb, f[1])}}} :
             InInputs(z)}
    ELSE {}

NoCall == [made |-> FALSE]

\* a batch holds at most one instance per variable of the largest matrix
MaxBatches == MaxLits \div 2

\* what the harness passes next: anything on the first call; after a call that
\* returned, the same batch again, its polarity flip, or the batch with one
\* instance changed.  An exception raised by forward ends the run.
NextInputs ==
    IF pc = "idle" THEN Inputs \X (0..MaxBatches)
    ELSE IF pc = "done" /\ outcome = "ok"
    THEN ({x, FlipInput(x)} \cup Repacked(x, n_batches)) \X {n_batches}
    ELSE {}

\* a loop that stops one iteration early
RangeStopsEarly(k, n) == k < n - 1

\* for i in range(n): is there an iteration number i?
RangeHasNext(k, n) == k < n

Init ==
    /\ self \in {Construct(p, r) : p \in ParamChoices, r \in 0..MaxRounds}
    /\ x = [rows |-> 0, cols |-> 0, m |-> <<>>]
    /\ n_batches = 0
    /\ pc = "idle"
    /\ i = 0
    /\ L_state_h = <<>> /\ L_state_c = <<>>
    /\ C_state_h = <<>> /\ C_state_c = <<>>
    /\ LC_msgs = <<>> /\ CL_msgs = <<>> /\ xxx = <<>>
    /\ all_votes = <<>>
    /\ logits = <<>>
    /\ outcome = "none"
    /\ nC = 0 /\ nL = 0
    /\ L_prev_h = <<>> /\ L_prev_c = <<>>
    /\ C_prev_h = <<>> /\ C_prev_c = <<>>
    /\ prev = NoCall

n_lits == Size(x)[1]
n_clauses == Size(x)[2]
n_vars == n_lits \div 2
denom == ISqrt(self.d)

\* a memory cell kept from the previous call when the row count matches
EntryLKept(nl) ==
    <<Repeat(DivRow(self.L_init, denom), nl),
      IF Len(L_state_c) = nl THEN L_state_c ELSE Zeros(nl, self.d)>>

\* lines 45-46
EntryL(nl) == <<Repeat(DivRow(self.L_init, denom), nl), Zeros(nl, self.d)>>
\* lines 48-49
EntryC(nc) == <<Repeat(DivRow(self.C_init, denom), nc), Zeros(nc, self.d)>>

\* forward(x, n_batches), lines 40-51: bind the arguments, build the initial
\* node state, enter the loop
Call(inp, nb) ==
    /\ pc \in {"idle", "done"}
    /\ prev' = IF pc = "done"
               THEN [made |-> TRUE, x |-> x, n_batches |-> n_batches,
                     all_votes |-> all_votes, logits |-> logits,
                     outcome |-> outcome]
               ELSE NoCall
    /\ x' = inp
    /\ n_batches' = nb
    /\ L_state_h' = EntryL(Size(inp)[1])[1]
    /\ L_state_c' = EntryL(Size(inp)[1])[2]
    /\ C_state_h' = EntryC(Size(inp)[2])[1]
    /\ C_state_c' = EntryC(Size(inp)[2])[2]
    /\ i' = 0
    /\ pc' = IF RangeHasNext(0, self.n_rounds) THEN "clause" ELSE "readout"
    /\ nC' = 0 /\ nL' = 0
    /\ logits' = <<>>
    /\ outcome' = "none"
    /\ UNCHANGED <<self, LC_msgs, CL_msgs, xxx, all_votes,
                   L_prev_h, L_prev_c, C_prev_h, C_prev_c>>

\* line 52-53
LCMsgs(L_h) == MatTMul(x, MLP(self.LC_msg, L_h), self.d)

\* lines 52-54
ClauseUpdate ==
    /\ pc = "clause"
    /\ LET msgs == LCMsgs(L_state_h)
           new == LSTMCell(self.C_update, self.d, msgs, C_state_h, C_state_c)
       IN  /\ LC_msgs' = msgs
           /\ C_state_h' = new[1]
           /\ C_state_c' = new[2]
    /\ C_prev_h' = C_state_h
    /\ C_prev_c' = C_state_c
    /\ nC' = nC + 1
    /\ pc' = "literal"
    /\ UNCHANGED <<self, x, n_batches, i, L_state_h, L_state_c, CL_msgs, xxx,
                   all_votes, logits, outcome, nL, L_prev_h, L_prev_c, prev>>

\* the literal-directed message taken from the clause state as it was before
\* this round's clause update
CLMsgsStale(C_h) == MatMul(x, MLP(self.CL_msg, C_prev_h), self.d)

\* lines 56-57
CLMsgs(C_h) == MatMul(x, MLP(self.CL_msg, C_h), self.d)

\* a flip that reverses the order of the literal rows
FlipRowsReversed(L_h) == Tup([l \in 1..Len(L_h) |-> L_h[Len(L_h) + 1 - l]])

\* a flip whose second half repeats the negative literals
FlipRowsOneSided(L_h) ==
    CatRows(Slice(L_h, n_vars, n_lits), Slice(L_h, n_lits - n_vars, n_lits))

\* line 58
FlipRows(L_h) == CatRows(Slice(L_h, n_vars, n_lits), Slice(L_h, 0, n_vars))

\* lines 56-60, and the loop's next iteration test
LiteralUpdate ==
    /\ pc = "literal"
    /\ LET msgs == CLMsgs(C_state_h)
           xx == FlipRows(L_state_h)
           inp == CatCols(msgs, xx)
           new == LSTMCell(self.L_update, self.d, inp, L_state_h, L_state_c)
       IN  /\ CL_msgs' = msgs
           /\ xxx' = inp
           /\ L_state_h' = new[1]
           /\ L_state_c' = new[2]
    /\ L_prev_h' = L_state_h
    /\ L_prev_c' = L_state_c
    /\ nL' = nL + 1
    /\ i' = i + 1
    /\ pc' = IF RangeHasNext(i + 1, self.n_rounds) THEN "clause" ELSE "readout"
    /\ UNCHANGED <<self, x, n_batches, C_state_h, C_state_c, LC_msgs,
                   all_votes, logits, outcome, nC, C_prev_h, C_prev_c, prev>>

\* consecutive votes paired, as reshape(all_votes, [n_vars, 2]) would
VotesJoinStacked(votes) ==
    IF n_lits = 2 * n_vars
    THEN [ok |-> TRUE,
          t |-> Tup([v \in 1..n_vars |-> votes[2 * v - 1] \o votes[2 * v]])]
    ELSE [ok |-> FALSE]

\* line 63: the two halves of the votes side by side; cat along dim 1 raises
\* unless both halves have the same number of rows
VotesJoin(votes) ==
    LET pos == Slice(votes, 0, n_vars)
        neg == Slice(votes, n_vars, n_lits)
    IN  IF Len(pos) = Len(neg) THEN [ok |-> TRUE, t |-> CatCols(pos, neg)]
        ELSE [ok |-> FALSE]

\* row-major order of the elements of a 2-D tensor
RECURSIVE Flatten(_)
Flatten(T) == IF Len(T) = 0 THEN <<>> ELSE Head(T) \o Flatten(Tail(T))

\* a reshape that keeps the leading a * b * 2 elements and drops the rest
ReshapeTruncating(T, a, b) ==
    LET flat == Flatten(T)
    IN  IF a * b * 2 <= Len(flat)
        THEN [ok |-> TRUE,
              t |-> Tup([p \in 1..a |-> Tup([q \in 1..b |-> Tup([r \in 1..2 |->
                        flat[(p - 1) * b * 2 + (q - 1) * 2 + r]])])])]
        ELSE [ok |-> FALSE]

\* torch.reshape(T, [a, b, 2]): raises unless the element counts agree
Reshape(T, a, b) ==
    LET flat == Flatten(T)
    IN  IF a * b * 2 = Len(flat)
        THEN [ok |-> TRUE,
              t |-> Tup([p \in 1..a |-> Tup([q \in 1..b |-> Tup([r \in 1..2 |->
                        flat[(p - 1) * b * 2 + (q - 1) * 2 + r]])])])]
        ELSE [ok |-> FALSE]

\* torch.mean(T, [1, 2]) of a 3-D tensor: one exact quotient <<sum, count>>
\* per leading index; a count of 0 is the NaN torch returns for an empty mean
MeanLast2(T) ==
    Tup([p \in 1..Len(T) |->
        <<SumSeq(Tup([q \in 1..Len(T[p]) |-> SumSeq(T[p][q])])), 2 * Len(T[p])>>])

\* q + b for a quotient q and a scalar b
AddScalar(q, b) == <<q[1] + b * q[2], q[2]>>

\* lines 62-68
Readout ==
    /\ pc = "readout"
    /\ LET votes == MLP(self.L_vote, L_state_h)
           join == VotesJoin(votes)
       IN  /\ all_votes' = votes
           /\ IF ~join.ok
              THEN /\ outcome' = "cat_error"
                   /\ logits' = <<>>
              ELSE IF n_batches = 0
              THEN /\ outcome' = "zero_division"
                   /\ logits' = <<>>
              ELSE LET batched == Reshape(join.t, n_batches, n_vars \div n_batches)
                   IN  IF ~batched.ok
                       THEN /\ outcome' = "reshape_error"
                            /\ logits' = <<>>
                       ELSE /\ outcome' = "ok"
                            /\ logits' = Tup([b \in 1..n_batches |->
                                  AddScalar(MeanLast2(batched.t)[b], self.vote_bias)])
    /\ pc' = "done"
    /\ UNCHANGED <<self, x, n_batches, i, L_state_h, L_state_c, C_state_h,
                   C_state_c, LC_msgs, CL_msgs, xxx, nC, nL,
                   L_prev_h, L_prev_c, C_prev_h, C_prev_c, prev>>

Next ==
    \/ \E a \in NextInputs : Call(a[1], a[2])
    \/ ClauseUpdate
    \/ LiteralUpdate
    \/ Readout

Spec == Init /\ [][Next]_vars

(* ------------------------------ properties ------------------------------ *)
Done == pc = "done"

\* the sum of f over the finite set S
RECURSIVE SetSum(_, _)
SetSum(f, S) ==
    IF S = {} THEN 0
    ELSE LET e == CHOOSE e \in S : TRUE IN f[e] + SetSum(f, S \ {e})

\* the literal rows (1-based) of instance b (0-based) in a batch of nb
\* instances over nv variables: v and v + nv for v in [b*k, (b+1)*k)
InstanceLits(nv, nb, b) ==
    LET k == nv \div nb
    IN  {v + 1 : v \in (b * k)..((b + 1) * k - 1)}
        \cup {v + 1 + nv : v \in (b * k)..((b + 1) * k - 1)}

\* the complementary literal of row l (1-based) among 2 * nv rows
Comp(l, nv) == IF l <= nv THEN l + nv ELSE l - nv

\* C1: on every well-formed input forward runs exactly n_rounds rounds, each
\* one clause update followed by one literal update, never more and never
\* fewer, and then returns logits read from the literal state left by the
\* last round.
C1_ExactlyNRounds ==
    /\ nL <= nC /\ nC <= nL + 1
    /\ nC <= self.n_rounds
    /\ (pc = "clause" \/ pc = "readout" \/ Done) => nC = nL
    /\ pc = "literal" => nC = nL + 1
    /\ (pc = "readout" \/ Done) => nC = self.n_rounds /\ nL = self.n_rounds
    /\ (Done /\ WellFormed(x, n_batches)) =>
          /\ outcome = "ok"
          /\ Len(logits) = n_batches
          /\ all_votes = MLP(self.L_vote, L_state_h)

C1_Witness ==
    /\ Done /\ WellFormed(x, n_batches) /\ x.rows >= 2
    /\ self.n_rounds = 2 /\ nC = 2 /\ nL = 2
    /\ outcome = "ok"

\* C2: an incidence matrix with an odd number of literal rows is rejected
\* before round 0: no clause update and no literal update runs on it.
C2_RejectedBeforeRound0 ==
    x.rows % 2 = 1 => (nC = 0 /\ nL = 0)

\* C3: when the variable count of the combined matrix is not an integral
\* multiple of n_batches the call ends in an error and returns no logits.
C3_NonIntegralRejected ==
    (Done /\ \A q \in 0..x.rows : 2 * q * n_batches # x.rows) =>
        (outcome # "ok" /\ logits = <<>>)

C3_Witness ==
    /\ Done /\ x.rows = 6 /\ n_batches = 2 /\ self.n_rounds >= 1
    /\ outcome = "reshape_error" /\ logits = <<>>

\* C4: a well-formed batch yields exactly n_batches logits, and logit b is
\* vote_bias plus the mean of the 2k votes of the literals v and v + n_vars
\* for the variables v of instance b; the instances' literal sets partition
\* the literals and contain each literal together with its complement.
C4_LogitsAreInstanceMeans ==
    (Done /\ WellFormed(x, n_batches)) =>
        LET nv == x.rows \div 2
            k == nv \div n_batches
            vote == [l \in 1..x.rows |-> all_votes[l][1]]
        IN  /\ outcome = "ok"
            /\ Len(logits) = n_batches
            /\ \A b \in 0..(n_batches - 1) :
                  logits[b + 1] =
                      <<SetSum(vote, InstanceLits(nv, n_batches, b))
                            + self.vote_bias * 2 * k, 2 * k>>
            /\ \A l \in 1..x.rows :
                  /\ Cardinality({b \in 0..(n_batches - 1) :
                                     l \in InstanceLits(nv, n_batches, b)}) = 1
                  /\ \A b \in 0..(n_batches - 1) :
                        l \in InstanceLits(nv, n_batches, b)
                            => Comp(l, nv) \in InstanceLits(nv, n_batches, b)

C4_Witness ==
    /\ Done /\ WellFormed(x, n_batches) /\ outcome = "ok"
    /\ n_batches = 2 /\ x.rows = 4
    /\ all_votes[1] # all_votes[2]
    /\ all_votes[1] # all_votes[3]
    /\ logits[1] # logits[2]

\* is row r of matrix y free of edges / is column c free of edges
ZeroRow(y, r) == \A c \in 1..y.cols : y.m[r][c] = 0
ZeroCol(y, c) == \A r \in 1..y.rows : y.m[r][c] = 0

\* the previous call had the same arguments' shape and batch count
Comparable ==
    /\ prev.made
    /\ prev.n_batches = n_batches
    /\ prev.x.rows = x.rows
    /\ prev.x.cols = x.cols

\* C5: whatever calls came before, a call starts from L_h = L_init / sqrt(d)
\* and C_h = C_init / sqrt(d) in every row with zero memory cells, and a call
\* on the arguments of the previous call returns what the previous call
\* returned.
C5_FreshStateEachCall ==
    /\ ((pc = "clause" \/ pc = "readout") /\ nC = 0) =>
          /\ Len(L_state_h) = x.rows /\ Len(L_state_c) = x.rows
          /\ Len(C_state_h) = x.cols /\ Len(C_state_c) = x.cols
          /\ \A l \in 1..x.rows : \A j \in 1..self.d :
                /\ L_state_h[l][j] * denom = self.L_init[j]
                /\ L_state_c[l][j] = 0
          /\ \A c \in 1..x.cols : \A j \in 1..self.d :
                /\ C_state_h[c][j] * denom = self.C_init[j]
                /\ C_state_c[c][j] = 0
    /\ (Done /\ Comparable /\ prev.x = x) =>
          /\ outcome = prev.outcome
          /\ logits = prev.logits
          /\ all_votes = prev.all_votes

C5_Witness ==
    /\ Done /\ Comparable /\ prev.x = x
    /\ outcome = "ok" /\ self.n_rounds >= 1 /\ self.d = 4
    /\ n_batches = 2
    /\ logits[1] # logits[2]

\* C6: in every round a clause whose column of x is all zero receives the
\* zero vector as its clause-directed message, and a literal whose row of x
\* is all zero receives the zero vector as its literal-directed message, the
\* message part of its cell input.
C6_IsolatedNodesGetZeroMessage ==
    /\ nC >= 1 =>
          \A c \in 1..x.cols : ZeroCol(x, c) =>
              \A j \in 1..self.d : LC_msgs[c][j] = 0
    /\ nL >= 1 =>
          \A l \in 1..x.rows : ZeroRow(x, l) =>
              \A j \in 1..self.d : CL_msgs[l][j] = 0 /\ xxx[l][j] = 0

C6_Witness ==
    /\ nL >= 2 /\ x.rows = 4 /\ x.cols = 2
    /\ \E c \in 1..2 : ZeroCol(x, c) /\ LC_msgs[c] # LC_msgs[3 - c]
    /\ \E l, r \in 1..4 : ZeroRow(x, l) /\ CL_msgs[l] # CL_msgs[r]
    /\ \A l \in 1..4 : \E j \in 1..self.d : MLP(self.LC_msg, L_prev_h)[l][j] > 0

\* C7: for a well-formed x and the matrix with every row i exchanged with
\* row i + n_vars, under the same parameters and any number of rounds, each
\* literal's vote on the one equals its complementary literal's vote on the
\* other, and the logits of the two calls are equal.
C7_PolaritySymmetry ==
    (/\ Done /\ Comparable /\ WellFormed(x, n_batches)
     /\ \A l \in 1..x.rows : prev.x.m[l] = x.m[Comp(l, x.rows \div 2)]) =>
        /\ outcome = "ok" /\ prev.outcome = "ok"
        /\ \A l \in 1..x.rows :
              all_votes[l] = prev.all_votes[Comp(l, x.rows \div 2)]
        /\ logits = prev.logits

C7_Witness ==
    /\ Done /\ Comparable /\ WellFormed(x, n_batches)
    /\ \A l \in 1..x.rows : prev.x.m[l] = x.m[Comp(l, x.rows \div 2)]
    /\ prev.x # x /\ x.rows = 4 /\ self.n_rounds >= 1
    /\ all_votes[1] # all_votes[3]
    /\ all_votes[1] # prev.all_votes[1]

\* C8: in every round the clause-directed message comes from the literal
\* state as it stood at the end of the previous round, the clause state is
\* updated from it, and the literal-directed message of the same round comes
\* from that updated clause state.
C8_ClauseThenLiteral ==
    /\ pc = "literal" =>
          /\ LC_msgs = MatTMul(x, MLP(self.LC_msg, L_state_h), self.d)
          /\ <<C_state_h, C_state_c>> =
                 LSTMCell(self.C_update, self.d, LC_msgs, C_prev_h, C_prev_c)
    /\ (nL >= 1 /\ pc # "literal") =>
          /\ LC_msgs = MatTMul(x, MLP(self.LC_msg, L_prev_h), self.d)
          /\ <<C_state_h, C_state_c>> =
                 LSTMCell(self.C_update, self.d, LC_msgs, C_prev_h, C_prev_c)
          /\ CL_msgs = MatMul(x, MLP(self.CL_msg, C_state_h), self.d)

C8_Witness ==
    /\ nL = 2 /\ pc = "readout"
    /\ C_prev_h # C_state_h /\ L_prev_h # L_state_h
    /\ CL_msgs # MatMul(x, MLP(self.CL_msg, C_prev_h), self.d)
    /\ LC_msgs # MatTMul(x, MLP(self.LC_msg, L_state_h), self.d)

\* the permutation of the literal rows that line 58 applies
FlipPerm == FlipRows(Tup([l \in 1..x.rows |-> l]))

\* C9: in every round the literal cell's input for literal i is literal i's
\* literal-directed message followed by the hidden state its complementary
\* literal had before this round's literal update, the cell's previous pair
\* is literal i's own, and the flip is a self-inverse permutation of the
\* literal rows without a fixed point.
C9_LiteralCellInput ==
    nL >= 1 =>
        \A l \in 1..x.rows :
            /\ xxx[l] = CL_msgs[l] \o L_prev_h[Comp(l, x.rows \div 2)]
            /\ L_state_c[l] =
                   CellC(self.L_update, self.d, xxx[l], L_prev_h[l], L_prev_c[l])
            /\ L_state_h[l] =
                   CellH(self.L_update, self.d, xxx[l], L_prev_h[l], L_state_c[l])
            /\ FlipPerm[l] \in 1..x.rows
            /\ FlipPerm[FlipPerm[l]] = l
            /\ FlipPerm[l] # l

\* the statement of C9 on the inputs whose literal rows come in pairs
LiteralCellInputOnPairedRows == x.rows % 2 = 0 => C9_LiteralCellInput

\* C10: in a batch whose clause columns each lie within one instance, the
\* logit of instance b is the same for any two batches that agree on the
\* rows of instance b, whatever the other instances' incidence entries are.
C10_InstanceIsolation ==
    (Done /\ Comparable /\ WellFormed(x, n_batches) /\ x.rows >= 2) =>
        \A b \in 0..(n_batches - 1) :
            (\E own \in [1..x.cols -> 0..(n_batches - 1)] :
                /\ Packed(x, n_batches, own)
                /\ Packed(prev.x, n_batches, own)
                /\ \A l \in 1..x.rows :
                      InstOfLit(x, n_batches, l) = b => x.m[l] = prev.x.m[l])
            => /\ outcome = "ok" /\ prev.outcome = "ok"
               /\ logits[b + 1] = prev.logits[b + 1]

C10_Witness ==
    /\ Done /\ Comparable /\ WellFormed(x, n_batches)
    /\ n_batches = 2 /\ x.rows = 4 /\ x.cols = 2 /\ self.n_rounds >= 1
    /\ x # prev.x
    /\ \E own \in [1..2 -> 0..1] :
          /\ Packed(x, 2, own) /\ Packed(prev.x, 2, own)
          /\ x.m[1] = prev.x.m[1] /\ x.m[3] = prev.x.m[3]
          /\ ~ZeroRow(x, 1)
    /\ logits[1] = prev.logits[1]
    /\ logits[2] # prev.logits[2]

=============================================================================
